---- MODULE Spec2Model ----
(***************************************************************************)
(* Model of src/app.py: a Flask application with three routes.  A request  *)
(* is received by a worker thread, dispatched through the URL map built by *)
(* the @app.route decorators, and answered by index, planet_info or        *)
(* sun_info.  planet_info builds its dictionary `planets` as a local       *)
(* variable on every call, lowercases the path argument, looks it up with  *)
(* dict.get(key, {}) and serialises the result with jsonify.               *)
(*                                                                         *)
(* Text that the program inspects (the path argument, the dictionary keys) *)
(* is a sequence of characters, one TLA+ string per code point.  Text that *)
(* the program only carries (the values of the records) is a TLA+ string.  *)
(* Python values carry their type: S(x) is a str, N(n) an int.             *)
(***************************************************************************)
EXTENDS Integers, Sequences, FiniteSets, TLC

VARIABLES pc, req, planet_name, planets, planet_data, resp, sunLog

vars == <<pc, req, planet_name, planets, planet_data, resp, sunLog>>

\* Number of worker threads serving requests in parallel.
NumWorkers == 2

\* Longest path argument of the exhaustively enumerated identifiers.
MaxLen == 4

Workers == 1..NumWorkers

-----------------------------------------------------------------------------
(* Python values and str.lower                                             *)

S(x) == [type |-> "str", val |-> x]

N(n) == [type |-> "int", val |-> n]

UpperCase == <<"A", "B", "C", "D", "E", "F", "G", "H", "I", "J", "K", "L", "M",
               "N", "O", "P", "Q", "R", "S", "T", "U", "V", "W", "X", "Y", "Z">>

LowerCase == <<"a", "b", "c", "d", "e", "f", "g", "h", "i", "j", "k", "l", "m",
               "n", "o", "p", "q", "r", "s", "t", "u", "v", "w", "x", "y", "z">>

IsUpper(c) == \E i \in DOMAIN UpperCase : UpperCase[i] = c

IsLower(c) == \E i \in DOMAIN LowerCase : LowerCase[i] = c

\* A mutant of lower_char: the character is kept as it is.
lower_char_identity(c) == <<c>>

\* str.lower on one code point.  ASCII capitals map to their small letter;
\* U+0130 (capital I with dot above) maps to two code points, "i" followed by
\* U+0307; U+212A (Kelvin sign) maps to "k"; every other character of the
\* model's alphabet is unchanged.
lower_char(c) ==
    IF IsUpper(c)
    THEN <<LowerCase[CHOOSE i \in DOMAIN UpperCase : UpperCase[i] = c]>>
    ELSE IF c = "U+0130" THEN <<"i", "U+0307">>
    ELSE IF c = "U+212A" THEN <<"k">>
    ELSE <<c>>

RECURSIVE lower(_)
\* planet_name.lower()
lower(s) == IF s = <<>> THEN <<>> ELSE lower_char(Head(s)) \o lower(Tail(s))

\* str.upper on one ASCII letter (used to enumerate the case variants).
upper_char(c) ==
    IF IsLower(c)
    THEN UpperCase[CHOOSE i \in DOMAIN LowerCase : LowerCase[i] = c]
    ELSE c

-----------------------------------------------------------------------------
(* The dictionary literal of planet_info and the literal of sun_info       *)

mercury == <<"m", "e", "r", "c", "u", "r", "y">>
venus   == <<"v", "e", "n", "u", "s">>
earth   == <<"e", "a", "r", "t", "h">>
mars    == <<"m", "a", "r", "s">>
jupiter == <<"j", "u", "p", "i", "t", "e", "r">>
saturn  == <<"s", "a", "t", "u", "r", "n">>
uranus  == <<"u", "r", "a", "n", "u", "s">>
neptune == <<"n", "e", "p", "t", "u", "n", "e">>

Mercury ==
    [name |-> S("Mercury"),
     diameter |-> S("4,879 km"),
     distance_from_sun |-> S("57.9 million km"),
     orbital_period |-> S("88 Earth days"),
     day_length |-> S("59 Earth days"),
     temperature |-> S("-180°C to 430°C"),
     moons |-> N(0),
     description |-> S("Mercury is the smallest planet in our solar system and closest to the Sun.")]

Venus ==
    [name |-> S("Venus"),
     diameter |-> S("12,104 km"),
     distance_from_sun |-> S("108.2 million km"),
     orbital_period |-> S("225 Earth days"),
     day_length |-> S("243 Earth days"),
     temperature |-> S("465°C (average)"),
     moons |-> N(0),
     description |-> S("Venus is the hottest planet in our solar system due to its thick atmosphere.")]

Earth ==
    [name |-> S("Earth"),
     diameter |-> S("12,742 km"),
     distance_from_sun |-> S("149.6 million km"),
     orbital_period |-> S("365.25 days"),
     day_length |-> S("24 hours"),
     temperature |-> S("15°C (average)"),
     moons |-> N(1),
     description |-> S("Earth is the only planet known to support life.")]

\* A mutant of Mars: the description is left out of the record.
MarsWithoutDescription ==
    [name |-> S("Mars"),
     diameter |-> S("6,779 km"),
     distance_from_sun |-> S("227.9 million km"),
     orbital_period |-> S("687 Earth days"),
     day_length |-> S("24.6 hours"),
     temperature |-> S("-65°C (average)"),
     moons |-> N(2)]

Mars ==
    [name |-> S("Mars"),
     diameter |-> S("6,779 km"),
     distance_from_sun |-> S("227.9 million km"),
     orbital_period |-> S("687 Earth days"),
     day_length |-> S("24.6 hours"),
     temperature |-> S("-65°C (average)"),
     moons |-> N(2),
     description |-> S("Mars is known as the Red Planet due to iron oxide on its surface.")]

Jupiter ==
    [name |-> S("Jupiter"),
     diameter |-> S("139,820 km"),
     distance_from_sun |-> S("778.5 million km"),
     orbital_period |-> S("11.86 Earth years"),
     day_length |-> S("9.93 hours"),
     temperature |-> S("-110°C (cloud top)"),
     moons |-> N(95),
     description |-> S("Jupiter is the largest planet in our solar system with the famous Great Red Spot.")]

Saturn ==
    [name |-> S("Saturn"),
     diameter |-> S("116,460 km"),
     distance_from_sun |-> S("1.4 billion km"),
     orbital_period |-> S("29.46 Earth years"),
     day_length |-> S("10.7 hours"),
     temperature |-> S("-140°C (cloud top)"),
     moons |-> N(146),
     description |-> S("Saturn is famous for its stunning ring system made of ice and rock.")]

Uranus ==
    [name |-> S("Uranus"),
     diameter |-> S("50,724 km"),
     distance_from_sun |-> S("2.9 billion km"),
     orbital_period |-> S("84 Earth years"),
     day_length |-> S("17.2 hours"),
     temperature |-> S("-195°C (cloud top)"),
     moons |-> N(28),
     description |-> S("Uranus rotates on its side, possibly due to a collision with an Earth-sized object.")]

\* A mutant of Neptune: the number of moons is written as text, like the
\* other fields.
NeptuneMoonsAsText ==
    [name |-> S("Neptune"),
     diameter |-> S("49,244 km"),
     distance_from_sun |-> S("4.5 billion km"),
     orbital_period |-> S("164.8 Earth years"),
     day_length |-> S("16.1 hours"),
     temperature |-> S("-200°C (cloud top)"),
     moons |-> S("16"),
     description |-> S("Neptune has the strongest winds in the solar system, reaching 2,100 km/h.")]

Neptune ==
    [name |-> S("Neptune"),
     diameter |-> S("49,244 km"),
     distance_from_sun |-> S("4.5 billion km"),
     orbital_period |-> S("164.8 Earth years"),
     day_length |-> S("16.1 hours"),
     temperature |-> S("-200°C (cloud top)"),
     moons |-> N(16),
     description |-> S("Neptune has the strongest winds in the solar system, reaching 2,100 km/h.")]

\* A mutant of Planets: a ninth entry, keyed "pluto".
PlanetsWithPluto ==
    (mercury :> Mercury) @@ (venus :> Venus) @@ (earth :> Earth) @@
    (mars :> Mars) @@ (jupiter :> Jupiter) @@ (saturn :> Saturn) @@
    (uranus :> Uranus) @@ (neptune :> Neptune) @@
    (<<"p", "l", "u", "t", "o">> :> [name |-> S("Pluto"), moons |-> N(5)])

\* The dictionary literal bound to `planets`.
Planets ==
    (mercury :> Mercury) @@ (venus :> Venus) @@ (earth :> Earth) @@
    (mars :> Mars) @@ (jupiter :> Jupiter) @@ (saturn :> Saturn) @@
    (uranus :> Uranus) @@ (neptune :> Neptune)

\* A mutant of Sun: the record with a moons field, like a planet's.
SunWithMoons ==
    [name |-> S("Sun"),
     type |-> S("G-type main-sequence star"),
     diameter |-> S("1,392,700 km"),
     mass |-> S("1.989 × 10³\\u2070 kg"),
     surface_temperature |-> S("5,500°C"),
     core_temperature |-> S("15 million°C"),
     age |-> S("4.6 billion years"),
     composition |-> S("73% Hydrogen, 25% Helium"),
     moons |-> N(0),
     description |-> S("The Sun is the star at the center of our Solar System. It provides the energy that sustains life on Earth.")]

\* The dictionary literal of sun_info.  The superscript zero of the mass
\* (U+2070) is written as its JSON escape.
Sun ==
    [name |-> S("Sun"),
     type |-> S("G-type main-sequence star"),
     diameter |-> S("1,392,700 km"),
     mass |-> S("1.989 × 10³\\u2070 kg"),
     surface_temperature |-> S("5,500°C"),
     core_temperature |-> S("15 million°C"),
     age |-> S("4.6 billion years"),
     composition |-> S("73% Hydrogen, 25% Helium"),
     description |-> S("The Sun is the star at the center of our Solar System. It provides the energy that sustains life on Earth.")]

\* The literal {} given to dict.get as its default.
EmptyDict == [k \in {} |-> S("")]

-----------------------------------------------------------------------------
(* jsonify and render_template                                             *)

\* The field names in the order json.dumps(sort_keys=True) writes them.
FieldOrder == <<"age", "composition", "core_temperature", "day_length",
                "description", "diameter", "distance_from_sun", "mass",
                "moons", "name", "orbital_period", "surface_temperature",
                "temperature", "type">>

\* A Python value as a JSON value: an int is written as a number, a str as a
\* string.
json_value(v) ==
    IF v.type = "int" THEN [type |-> "number", val |-> v.val]
                      ELSE [type |-> "string", val |-> v.val]

\* The JSON object written for the dictionary d: its members, sorted by key.
dumps(d) ==
    LET keys == SelectSeq(FieldOrder, LAMBDA k : k \in DOMAIN d)
    IN  [i \in 1..Len(keys) |-> [key |-> keys[i], value |-> json_value(d[keys[i]])]]

\* jsonify(d): a 200 response of type application/json whose body is the
\* JSON object of d.
jsonify(d) ==
    [status |-> 200, mimetype |-> "application/json", page |-> "", body |-> dumps(d)]

\* render_template(name): a 200 response carrying the rendered page.
render_template(name) ==
    [status |-> 200, mimetype |-> "text/html", page |-> name, body |-> <<>>]

\* The response of the URL map when no rule matches the path.
NotFound ==
    [status |-> 404, mimetype |-> "text/html", page |-> "Not Found", body |-> <<>>]

-----------------------------------------------------------------------------
(* The URL map built by the three @app.route decorators                    *)

IndexPath  == "/"
PlanetPath == "/api/planet-info/"
SunPath    == "/api/sun-info"

\* A GET request: the matched prefix of its path and the text after it.
Request(path, arg) == [path |-> path, arg |-> arg]

HasSlash(s) == \E i \in DOMAIN s : s[i] = "/"

\* A mutant of route: the path argument may be empty or hold a slash.
route_any_argument(r) ==
    IF r.path = IndexPath /\ r.arg = <<>> THEN "index"
    ELSE IF r.path = SunPath /\ r.arg = <<>> THEN "sun_info"
    ELSE IF r.path = PlanetPath THEN "planet_info"
    ELSE "none"

\* The endpoint a request is dispatched to.  <planet_name> is a variable of
\* the default (string) converter: one path segment, at least one character
\* and no slash.
route(r) ==
    IF r.path = IndexPath /\ r.arg = <<>> THEN "index"
    ELSE IF r.path = SunPath /\ r.arg = <<>> THEN "sun_info"
    ELSE IF r.path = PlanetPath /\ r.arg # <<>> /\ ~HasSlash(r.arg) THEN "planet_info"
    ELSE "none"

IsPrefix(s, k) == Len(s) <= Len(k) /\ SubSeq(k, 1, Len(s)) = s

\* A mutant of get: a key is found by any non-empty prefix of it.
get_by_prefix(d, key, default) ==
    IF \E k \in DOMAIN d : key # <<>> /\ IsPrefix(key, k)
    THEN d[CHOOSE k \in DOMAIN d : IsPrefix(key, k)]
    ELSE default

\* dict.get(key, default)
get(d, key, default) == IF key \in DOMAIN d THEN d[key] ELSE default

-----------------------------------------------------------------------------
(* State                                                                   *)

NoRequest  == Request("", <<>>)
NoResponse == [status |-> 0, mimetype |-> "", page |-> "", body |-> <<>>]
NoTable    == [k \in {} |-> EmptyDict]

Init ==
    /\ pc = [w \in Workers |-> "idle"]
    /\ req = [w \in Workers |-> NoRequest]
    /\ planet_name = [w \in Workers |-> <<>>]
    /\ planets = [w \in Workers |-> NoTable]
    /\ planet_data = [w \in Workers |-> EmptyDict]
    /\ resp = [w \in Workers |-> NoResponse]
    /\ sunLog = {}

-----------------------------------------------------------------------------
(* Steps of a worker                                                       *)

\* A worker thread takes the request r.
Receive(w, r) ==
    /\ pc[w] = "idle"
    /\ pc' = [pc EXCEPT ![w] = "dispatch"]
    /\ req' = [req EXCEPT ![w] = r]
    /\ UNCHANGED <<planet_name, planets, planet_data, resp, sunLog>>

\* The URL map dispatches the request: the view function is entered with its
\* argument bound, or the request is answered 404 without any view running.
Dispatch(w) ==
    /\ pc[w] = "dispatch"
    /\ LET e == route(req[w])
       IN  /\ pc' = [pc EXCEPT ![w] = IF e = "none" THEN "done" ELSE e]
           /\ resp' = [resp EXCEPT ![w] = IF e = "none" THEN NotFound ELSE @]
           /\ planet_name' = [planet_name EXCEPT
                                ![w] = IF e = "planet_info" THEN req[w].arg ELSE @]
    /\ UNCHANGED <<req, planets, planet_data, sunLog>>

\* return render_template('index.html')
index(w) ==
    /\ pc[w] = "index"
    /\ resp' = [resp EXCEPT ![w] = render_template("index.html")]
    /\ pc' = [pc EXCEPT ![w] = "done"]
    /\ UNCHANGED <<req, planet_name, planets, planet_data, sunLog>>

\* planets = {...}: the local dictionary is built from the literal.
planet_info_build(w) ==
    /\ pc[w] = "planet_info"
    /\ planets' = [planets EXCEPT ![w] = Planets]
    /\ pc' = [pc EXCEPT ![w] = "planet_info_get"]
    /\ UNCHANGED <<req, planet_name, planet_data, resp, sunLog>>

\* A mutant of planet_info_get: dict.setdefault in place of dict.get, which
\* stores the default under an unknown key.
planet_info_setdefault(w) ==
    /\ pc[w] = "planet_info_get"
    /\ LET key == lower(planet_name[w])
       IN  /\ planet_data' = [planet_data EXCEPT ![w] = get(planets[w], key, EmptyDict)]
           /\ planets' = [planets EXCEPT
                            ![w] = IF key \in DOMAIN @ THEN @ ELSE @ @@ (key :> EmptyDict)]
    /\ pc' = [pc EXCEPT ![w] = "planet_info_return"]
    /\ UNCHANGED <<req, planet_name, resp, sunLog>>

\* A mutant of planet_info_get: the name looked up is the one most recently
\* bound by any worker, as if planet_name were a module-level variable.
planet_info_get_shared_name(w) ==
    /\ pc[w] = "planet_info_get"
    /\ LET v == CHOOSE x \in Workers :
                    /\ planet_name[x] # <<>>
                    /\ \A y \in Workers : planet_name[y] # <<>> => x >= y
       IN  planet_data' = [planet_data EXCEPT
                             ![w] = get(planets[w], lower(planet_name[v]), EmptyDict)]
    /\ pc' = [pc EXCEPT ![w] = "planet_info_return"]
    /\ UNCHANGED <<req, planet_name, planets, resp, sunLog>>

RECURSIVE lstrip(_)
lstrip(s) == IF s # <<>> /\ Head(s) = " " THEN lstrip(Tail(s)) ELSE s

RECURSIVE rstrip(_)
rstrip(s) == IF s # <<>> /\ s[Len(s)] = " " THEN rstrip(SubSeq(s, 1, Len(s) - 1)) ELSE s

\* A mutant of planet_info_get: the name is stripped of surrounding blanks
\* before it is looked up.
planet_info_get_stripped(w) ==
    /\ pc[w] = "planet_info_get"
    /\ planet_data' = [planet_data EXCEPT
                         ![w] = get(planets[w], lower(lstrip(rstrip(planet_name[w]))), EmptyDict)]
    /\ pc' = [pc EXCEPT ![w] = "planet_info_return"]
    /\ UNCHANGED <<req, planet_name, planets, resp, sunLog>>

\* planet_data = planets.get(planet_name.lower(), {})
planet_info_get(w) ==
    /\ pc[w] = "planet_info_get"
    /\ planet_data' = [planet_data EXCEPT
                         ![w] = get(planets[w], lower(planet_name[w]), EmptyDict)]
    /\ pc' = [pc EXCEPT ![w] = "planet_info_return"]
    /\ UNCHANGED <<req, planet_name, planets, resp, sunLog>>

\* return jsonify(planet_data): the response is built and the locals of the
\* call go out of scope.
planet_info_return(w) ==
    /\ pc[w] = "planet_info_return"
    /\ resp' = [resp EXCEPT ![w] = jsonify(planet_data[w])]
    /\ pc' = [pc EXCEPT ![w] = "done"]
    /\ planet_name' = [planet_name EXCEPT ![w] = <<>>]
    /\ planets' = [planets EXCEPT ![w] = NoTable]
    /\ planet_data' = [planet_data EXCEPT ![w] = EmptyDict]
    /\ UNCHANGED <<req, sunLog>>

\* A mutant of sun_info: the record carries a count of the calls answered
\* so far.
sun_info_counting(w) ==
    /\ pc[w] = "sun_info"
    /\ resp' = [resp EXCEPT ![w] = jsonify(Sun @@ [moons |-> N(Cardinality(sunLog))])]
    /\ sunLog' = sunLog \cup {resp'[w]}
    /\ pc' = [pc EXCEPT ![w] = "done"]
    /\ UNCHANGED <<req, planet_name, planets, planet_data>>

\* return jsonify({...}).  sunLog records every response sun_info has
\* produced, across restarts of the process.
sun_info(w) ==
    /\ pc[w] = "sun_info"
    /\ resp' = [resp EXCEPT ![w] = jsonify(Sun)]
    /\ sunLog' = sunLog \cup {resp'[w]}
    /\ pc' = [pc EXCEPT ![w] = "done"]
    /\ UNCHANGED <<req, planet_name, planets, planet_data>>

\* The response is sent and the worker is free again.
Respond(w) ==
    /\ pc[w] = "done"
    /\ pc' = [pc EXCEPT ![w] = "idle"]
    /\ req' = [req EXCEPT ![w] = NoRequest]
    /\ resp' = [resp EXCEPT ![w] = NoResponse]
    /\ UNCHANGED <<planet_name, planets, planet_data, sunLog>>

\* The process is stopped and started again (app.run): every request in
\* flight is lost and the module is loaded afresh.
Restart ==
    /\ \E w \in Workers : pc[w] # "idle"
    /\ pc' = [w \in Workers |-> "idle"]
    /\ req' = [w \in Workers |-> NoRequest]
    /\ planet_name' = [w \in Workers |-> <<>>]
    /\ planets' = [w \in Workers |-> NoTable]
    /\ planet_data' = [w \in Workers |-> EmptyDict]
    /\ resp' = [w \in Workers |-> NoResponse]
    /\ UNCHANGED sunLog

Handle(w) ==
    \/ Dispatch(w)
    \/ index(w)
    \/ planet_info_build(w)
    \/ planet_info_get(w)
    \/ planet_info_return(w)
    \/ sun_info(w)
    \/ Respond(w)

-----------------------------------------------------------------------------
(* Requests                                                                *)

RECURSIVE CaseVariants(_)
\* Every spelling of the key k in capital and small letters.
CaseVariants(k) ==
    IF k = <<>> THEN {<<>>}
    ELSE {<<c>> \o t : c \in {Head(k), upper_char(Head(k))}, t \in CaseVariants(Tail(k))}

KnownKeys == {mercury, venus, earth, mars, jupiter, saturn, uranus, neptune}

Alphabet == {"m", "a", "r", "s", " ", "/"}

RECURSIVE Strings(_)
\* Every text over Alphabet of at most n characters.
Strings(n) ==
    IF n = 0 THEN {<<>>}
    ELSE LET P == Strings(n - 1)
         IN  P \cup {<<c>> \o s : c \in Alphabet, s \in {p \in P : Len(p) = n - 1}}

NearMisses ==
    { <<"p", "l", "u", "t", "o">>,
      <<"t", "e", "r", "r", "a">>,
      <<"s", "u", "n">>,
      <<"S", "u", "n">>,
      <<"x", "y", "z", "1", "2", "3">>,
      <<"e", "a", "r", "t">>,
      <<"e", "a", "r", "t", "h", "s">>,
      <<"a", "r", "t", "h">>,
      <<" ", "e", "a", "r", "t", "h">>,
      <<"E", "a", "r", "t", "h", " ">>,
      <<"e", "a", "r", "t", "h", "/">>,
      <<"v", "e", "n", "u", "s", "/", "x">>,
      <<"j", "u", "p", "U+0130", "t", "e", "r">>,
      <<"J", "U", "P", "U+0130", "T", "E", "R">>,
      <<"U+212A", "m", "a", "r", "s">> }

AllIdentifiers ==
    UNION {CaseVariants(k) : k \in KnownKeys} \cup Strings(MaxLen) \cup NearMisses

SampleIdentifiers ==
    { <<"M", "a", "r", "s">>,
      <<"E", "A", "R", "T", "H">>,
      neptune,
      <<"p", "l", "u", "t", "o">>,
      <<"m", "a", "r">>,
      <<>>,
      <<"m", "a", "r", "s", "/">> }

AllRequests ==
    {Request(PlanetPath, a) : a \in AllIdentifiers}
        \cup {Request(IndexPath, <<>>), Request(SunPath, <<>>)}

SampleRequests ==
    {Request(PlanetPath, a) : a \in SampleIdentifiers}
        \cup {Request(IndexPath, <<>>), Request(SunPath, <<>>)}

-----------------------------------------------------------------------------
(* Specifications                                                          *)

\* NumWorkers threads serve the sample requests in parallel.
Next ==
    \/ \E w \in Workers, r \in SampleRequests : Receive(w, r)
    \/ \E w \in Workers : Handle(w)
    \/ Restart

Spec == Init /\ [][Next]_vars

\* One thread serves every request of AllRequests, one after the other.
NextSeq ==
    \/ \E r \in AllRequests : Receive(1, r)
    \/ Handle(1)
    \/ Restart

SpecSeq == Init /\ [][NextSeq]_vars

-----------------------------------------------------------------------------
(* What a client reads from a response                                     *)

py_value(j) == IF j.type = "number" THEN N(j.val) ELSE S(j.val)

\* The record a client parses from a JSON body.
json_loads(body) ==
    [k \in {body[i].key : i \in DOMAIN body} |->
        py_value(body[CHOOSE i \in DOMAIN body : body[i].key = k].value)]

\* Worker w has finished a planet lookup and holds its response.
PlanetDone(w) == pc[w] = "done" /\ req[w].path = PlanetPath

\* Worker w has finished a Sun request and holds its response.
SunDone(w) == pc[w] = "done" /\ req[w].path = SunPath

\* The response is a successful JSON answer.
IsJsonOK(r) == r.status = 200 /\ r.mimetype = "application/json"

\* The text s is the key k up to the case of its letters.
IsCaseVariant(s, k) ==
    /\ Len(s) = Len(k)
    /\ \A i \in DOMAIN k : s[i] \in {k[i], upper_char(k[i])}

CanonicalName ==
    (mercury :> "Mercury") @@ (venus :> "Venus") @@ (earth :> "Earth") @@
    (mars :> "Mars") @@ (jupiter :> "Jupiter") @@ (saturn :> "Saturn") @@
    (uranus :> "Uranus") @@ (neptune :> "Neptune")

EightKeys ==
    { <<"m", "e", "r", "c", "u", "r", "y">>, <<"v", "e", "n", "u", "s">>,
      <<"e", "a", "r", "t", "h">>, <<"m", "a", "r", "s">>,
      <<"j", "u", "p", "i", "t", "e", "r">>, <<"s", "a", "t", "u", "r", "n">>,
      <<"u", "r", "a", "n", "u", "s">>, <<"n", "e", "p", "t", "u", "n", "e">> }

PlanetFields ==
    {"name", "diameter", "distance_from_sun", "orbital_period", "day_length",
     "temperature", "moons", "description"}

-----------------------------------------------------------------------------
(* Claims                                                                  *)

\* C1: for each of the eight planet identifiers and every spelling of it in
\* capital and small letters, a finished planet lookup is a 200 JSON answer
\* whose name field is the canonical capitalised name of that planet.
C1_CanonicalName ==
    \A w \in Workers : \A k \in EightKeys :
        PlanetDone(w) /\ IsCaseVariant(req[w].arg, k) =>
            /\ IsJsonOK(resp[w])
            /\ "name" \in DOMAIN json_loads(resp[w].body)
            /\ json_loads(resp[w].body).name = S(CanonicalName[k])

\* C1 witness: the mixed-case spelling "nEpTuNe" has been answered "Neptune".
C1_Witness ==
    \E w \in Workers :
        /\ PlanetDone(w)
        /\ req[w].arg = <<"n", "E", "p", "T", "u", "N", "e">>
        /\ json_loads(resp[w].body).name = S("Neptune")

\* The response carries the empty record {} as a successful answer.
IsEmptyOK(r) == IsJsonOK(r) /\ json_loads(r.body) = EmptyDict

C3_SunIdentical ==
    /\ \A r1, r2 \in sunLog : r1 = r2
    /\ \A w \in Workers : SunDone(w) => resp[w] \in sunLog /\ IsJsonOK(resp[w])

\* C3 witness: a Sun request is finished while an earlier Sun response is on
\* record and another worker is in the middle of a planet lookup.
C3_Witness ==
    \E w, v \in Workers :
        /\ SunDone(w)
        /\ sunLog # {}
        /\ pc[v] = "planet_info_return"
        /\ json_loads(resp[w].body).name = S("Sun")

\* C4: every planet mapping that exists, in every reachable state and after
\* any restart, has exactly the eight planet identifiers as its keys.
C4_EightKeys ==
    \A w \in Workers :
        planets[w] # NoTable =>
            DOMAIN planets[w] = EightKeys /\ Cardinality(DOMAIN planets[w]) = 8

\* C4 witness: a lookup of the unknown key "pluto" has run and the mapping it
\* read is still in scope.
C4_Witness ==
    \E w \in Workers :
        /\ pc[w] = "planet_info_return"
        /\ planet_name[w] = <<"p", "l", "u", "t", "o">>
        /\ Cardinality(DOMAIN planets[w]) = 8

\* The response carries a record with at least one field.
IsNonEmptyRecord(r) == IsJsonOK(r) /\ r.body # <<>>

\* C5: a planet lookup returns a non-empty record if and only if the
\* lowercased input equals one of the eight keys; every other input that is
\* routed to the lookup (prefix, substring, surrounding blank, alias) gets {}.
C5_ExactMatch ==
    \A w \in Workers :
        PlanetDone(w) =>
            /\ IsNonEmptyRecord(resp[w]) <=> lower(req[w].arg) \in EightKeys
            /\ route(req[w]) = "planet_info" /\ lower(req[w].arg) \notin EightKeys
                    => IsEmptyOK(resp[w])

\* C5 witness: "Earth " with a trailing blank has been answered {}.
C5_Witness ==
    \E w \in Workers :
        /\ PlanetDone(w)
        /\ req[w].arg = <<"E", "a", "r", "t", "h", " ">>
        /\ IsEmptyOK(resp[w])

\* C6: when the lowercased input is a known key the record returned is that
\* key's stored record, nothing added or dropped; for "mars" it is the record
\* written out here.
C6_FullRecord ==
    \A w \in Workers :
        PlanetDone(w) /\ lower(req[w].arg) \in EightKeys =>
            /\ IsJsonOK(resp[w])
            /\ json_loads(resp[w].body) = Planets[lower(req[w].arg)]
            /\ lower(req[w].arg) = <<"m", "a", "r", "s">> =>
                 json_loads(resp[w].body) =
                    [name |-> S("Mars"),
                     diameter |-> S("6,779 km"),
                     distance_from_sun |-> S("227.9 million km"),
                     orbital_period |-> S("687 Earth days"),
                     day_length |-> S("24.6 hours"),
                     temperature |-> S("-65°C (average)"),
                     moons |-> N(2),
                     description |-> S("Mars is known as the Red Planet due to iron oxide on its surface.")]

\* C6 witness: "Mars" has been answered with a record of eight fields.
C6_Witness ==
    \E w \in Workers :
        /\ PlanetDone(w)
        /\ req[w].arg = <<"M", "a", "r", "s">>
        /\ Len(resp[w].body) = 8

SunOnlyFields ==
    {"type", "mass", "surface_temperature", "core_temperature", "age", "composition"}

\* C7 as stated: the Sun record has the six Sun fields and none of diameter,
\* distance_from_sun, orbital_period, day_length, temperature and moons.
C7_Original ==
    \A w \in Workers :
        SunDone(w) =>
            /\ SunOnlyFields \subseteq DOMAIN json_loads(resp[w].body)
            /\ DOMAIN json_loads(resp[w].body)
                 \cap {"diameter", "distance_from_sun", "orbital_period",
                       "day_length", "temperature", "moons"} = {}

\* C7 amended: the Sun record has the six Sun fields and also diameter; none
\* of distance_from_sun, orbital_period, day_length, temperature and moons is
\* present.
C7_Amended ==
    \A w \in Workers :
        SunDone(w) =>
            /\ SunOnlyFields \subseteq DOMAIN json_loads(resp[w].body)
            /\ "diameter" \in DOMAIN json_loads(resp[w].body)
            /\ DOMAIN json_loads(resp[w].body)
                 \cap {"distance_from_sun", "orbital_period",
                       "day_length", "temperature", "moons"} = {}

\* C7 witness: a Sun request has been answered with a record of nine fields.
C7_Witness ==
    \E w \in Workers : SunDone(w) /\ Len(resp[w].body) = 9

\* C8 as stated: no step of a request handler constructs or replaces a
\* planet mapping; a mapping a request reads is the one that was there before.
C8_Original ==
    [][\A w \in Workers : planets'[w] # NoTable => planets'[w] = planets[w]]_vars

\* C8 amended: the planet mapping is built inside planet_info on every call,
\* not once at process start; from its construction to the end of the call it
\* is never modified, and every mapping built is equal to the one literal.
C8_Amended ==
    [][\A w \in Workers :
          /\ planets[w] # NoTable /\ planets'[w] # NoTable => planets'[w] = planets[w]
          /\ planets'[w] # NoTable => planets'[w] = Planets]_vars

\* C8 witness: two calls of planet_info each hold a mapping of their own at
\* the same time, one of them after a lookup that missed.
C8_Witness ==
    \E w, v \in Workers :
        /\ w # v
        /\ planets[w] # NoTable
        /\ planets[v] # NoTable
        /\ pc[w] = "planet_info_return"
        /\ planet_data[w] = EmptyDict

\* The response of the request r served alone, from entry to return.
Alone(r) ==
    CASE route(r) = "index" -> render_template("index.html")
      [] route(r) = "sun_info" -> jsonify(Sun)
      [] route(r) = "planet_info" -> jsonify(get(Planets, lower(r.arg), EmptyDict))
      [] OTHER -> NotFound

\* C9: in every interleaving of the steps of parallel requests, the response
\* of each finished request is the response that request gets when served
\* alone.
C9_Independent ==
    \A w \in Workers : pc[w] = "done" => resp[w] = Alone(req[w])

\* C9 witness: a lookup of "Mars" has finished with its record while another
\* worker is in the middle of a lookup of a different name.
C9_Witness ==
    \E w, v \in Workers :
        /\ PlanetDone(w)
        /\ req[w].arg = <<"M", "a", "r", "s">>
        /\ Len(resp[w].body) = 8
        /\ pc[v] \in {"planet_info_get", "planet_info_return"}
        /\ req[v].arg # req[w].arg

\* C10: every record of a planet mapping has exactly the eight planet
\* fields; moons is a non-negative integer and every other field is text.
C10_RecordShape ==
    \A w \in Workers : \A k \in DOMAIN planets[w] :
        /\ DOMAIN planets[w][k] = PlanetFields
        /\ \A f \in PlanetFields :
              IF f = "moons"
              THEN planets[w][k][f].type = "int" /\ planets[w][k][f].val >= 0
              ELSE planets[w][k][f].type = "str"

\* C10 witness: a mapping of eight records has just been built.
C10_Witness ==
    \E w \in Workers :
        /\ pc[w] = "planet_info_get"
        /\ Cardinality(DOMAIN planets[w]) = 8
        /\ planets[w][<<"e", "a", "r", "t", "h">>].moons = N(1)

====
